---- MODULE Spec2Model ----
(***************************************************************************)
(* Hospital customer question answering: corpus preparation                *)
(* (src/src/data_processing.py), the retrieval pipeline orchestrator       *)
(* HospitalRAGSystem (src/src/rag_system.py) and the direct-generation     *)
(* FullRAGSystem (src/app/streamlit_app.py).                               *)
(*                                                                         *)
(* Text is a sequence of one-character strings.  The Korean literals of    *)
(* the source are written as ASCII names; the comment beside each gives    *)
(* the source line of the literal.                                         *)
(***************************************************************************)
EXTENDS Integers, Sequences, FiniteSets, TLC

VARIABLES
    phase,       \* corpus preparation: which calls have been made
    text,        \* preprocess_text: the raw cell
    cleaned,     \* preprocess_text(text)
    recleaned,   \* preprocess_text(cleaned)
    df,          \* create_qa_pairs: the raw table
    qa_pairs     \* create_qa_pairs(df)

VARIABLES
    result       \* what the last query call gave its caller, until delivered

VARIABLES
    top_k,        \* config['rag']['top_k']
    embeddings,   \* self.embeddings of each HospitalRAGSystem
    vectorstore,  \* self.vectorstore
    retriever,    \* self.retriever
    qa_chain,     \* self.qa_chain
    cache,        \* the st.cache_resource entry of get_rag_system
    lock,         \* the caller computing the cached value, 0 when none
    pc,           \* where each caller is
    target,       \* the object whose initialize_system the caller runs
    viaCache,     \* whether that call was made by get_rag_system
    initResult,   \* how the caller's last initialize_system call ended
    buildOk,      \* whether that call built the index and set the retriever
    chainOk,      \* whether that call set the QA chain
    firstWave,    \* whether that call began before any call had ended
    waveBuilds,   \* setup_vectorstore executions by first-wave calls
    everReturned, \* whether an initialize_system call has ended on the object
    lastInit      \* whether the last call to end on the object had failed

prepVars == <<phase, text, cleaned, recleaned, df, qa_pairs>>
objVars == <<embeddings, vectorstore, retriever, qa_chain>>
callVars == <<pc, target, viaCache, initResult, buildOk, chainOk, firstWave>>
ghostVars == <<waveBuilds, everReturned, lastInit>>
orchVars == <<top_k, objVars, cache, lock, callVars, ghostVars>>
vars == <<prepVars, result, orchVars>>

(***************************************************************************)
(* Bounds                                                                  *)
(***************************************************************************)
MaxTextLen == 3
MaxRows == 2
MaxQuestionLen == 2
NumCallers == 2
MaxTopK == 2
MaxDocs == 3

\* NaN / None: what pd.isna answers True for (no text is this value: "NaN"
\* is not a character)
Null == <<"NaN">>

(***************************************************************************)
(* data_processing.py: preprocess_text                                     *)
(***************************************************************************)
\* "a": a word character (\w, which also covers Hangul), ".": kept
\* punctuation, "#": a character outside the allow-list, " " and "\t":
\* whitespace (\s).
Alphabet == {"a", ".", "#", " ", "\t"}

IsSpace(ch) == ch \in {" ", "\t"}

\* the character class [\w\s.,!?] of line 42
Allowed(ch) == ch \in {"a", ".", ",", "!", "?", " ", "\t"}

RECURSIVE LStrip(_)
LStrip(s) ==
    IF s # <<>> /\ IsSpace(Head(s)) THEN LStrip(Tail(s)) ELSE s

RECURSIVE RStrip(_)
RStrip(s) ==
    IF s # <<>> /\ IsSpace(s[Len(s)]) THEN RStrip(SubSeq(s, 1, Len(s) - 1)) ELSE s

\* str.strip()
Strip(s) == RStrip(LStrip(s))

\* re.sub(r'[^\w\s.,!?]', '', text)
RemoveSpecial(s) == SelectSeq(s, Allowed)

\* re.sub(r'\s+', ' ', text): every maximal run of whitespace becomes one " "
RECURSIVE CollapseSpaces(_)
CollapseSpaces(s) ==
    IF s = <<>> THEN <<>>
    ELSE IF IsSpace(Head(s))
         THEN <<" ">> \o CollapseSpaces(LStrip(Tail(s)))
         ELSE <<Head(s)>> \o CollapseSpaces(Tail(s))

preprocess_text(t) ==
    IF t = Null THEN <<>>
    ELSE CollapseSpaces(RemoveSpecial(Strip(t)))

\* the sequences over A of length at most n
StringsUpTo(A, n) == UNION {[1..k -> A] : k \in 0..n}

Texts == {Null} \cup StringsUpTo(Alphabet, MaxTextLen)

\* preprocess_text called on the raw cell
Preprocess ==
    /\ phase = "raw"
    /\ cleaned' = preprocess_text(text)
    /\ phase' = "cleaned"
    /\ UNCHANGED <<text, recleaned, df, qa_pairs, result, orchVars>>

\* preprocess_text called again, on its own result
PreprocessAgain ==
    /\ phase = "cleaned"
    /\ recleaned' = preprocess_text(cleaned)
    /\ phase' = "recleaned"
    /\ UNCHANGED <<text, cleaned, df, qa_pairs, result, orchVars>>

(***************************************************************************)
(* data_processing.py: create_qa_pairs                                     *)
(***************************************************************************)
\* the cells a CSV column holds: a missing cell (NaN), text that cleans to
\* nothing, text that cleans to something
Cells ==
    {Null, <<>>, <<" ">>, <<"#">>, <<"a">>, <<"#", " ", "a">>, <<"#", " ", "#">>}

Rows == [question : Cells, answer : Cells]

Tables == StringsUpTo(Rows, MaxRows)

\* the dict appended at lines 58-67 for the row at index idx
Unit(idx, question, answer) ==
    [id |-> idx, question |-> question, answer |-> answer,
     category |-> "hospital",
     metadata |-> [source |-> "hospital_qa", index |-> idx]]

\* a slip: ids renumbered over the kept rows
UnitIdRenumbered(idx, kept) == kept

\* the id a kept row is given: its index label, 0-based (df.iterrows());
\* kept is len(qa_pairs) at that point
UnitId(idx, kept) == idx

\* the loop of lines 53-67 from row i on (rows are numbered from 1 here, the
\* index label of row i is i - 1), acc being qa_pairs so far
RECURSIVE QaLoop(_, _, _)
QaLoop(d, i, acc) ==
    IF i > Len(d) THEN acc
    ELSE LET question == preprocess_text(d[i].question)
             answer == preprocess_text(d[i].answer)
         IN  IF question # <<>> /\ answer # <<>>
             THEN QaLoop(d, i + 1,
                         Append(acc, Unit(UnitId(i - 1, Len(acc)), question, answer)))
             ELSE QaLoop(d, i + 1, acc)

create_qa_pairs(d) == QaLoop(d, 1, <<>>)

CreateQaPairs ==
    /\ phase = "raw"
    /\ qa_pairs' = create_qa_pairs(df)
    /\ phase' = "built"
    /\ UNCHANGED <<text, cleaned, recleaned, df, result, orchVars>>

(***************************************************************************)
(* Query results                                                           *)
(***************************************************************************)
\* a confidence is a fraction num/den, den > 0
Frac(n, d) == [num |-> n, den |-> d]
Less(a, b) == a.num * b.den < b.num * a.den

\* no call has returned, or its result has been delivered
NoResult == [system |-> "none"]

\* a dict key that the returned dict does not have
NoKey == <<"absent">>

\* The dict a query call returns; sources is len(source_documents).
\* instance, asked, called and failed are not entries of the dict: instance
\* is the object asked, asked the argument, called tells whether the
\* retrieval chain or the generative API was invoked, failed whether that
\* call raised.
Returned(system, instance, asked, answer, sources, confidence, question, called, failed) ==
    [system |-> system, instance |-> instance, raised |-> FALSE, asked |-> asked,
     answer |-> answer, sources |-> sources, confidence |-> confidence,
     question |-> question, called |-> called, failed |-> failed]

\* a call that ends by an exception reaching its caller
Raised(system, instance, asked, called, failed) ==
    [system |-> system, instance |-> instance, raised |-> TRUE, asked |-> asked,
     answer |-> "none", sources |-> 0, confidence |-> Frac(0, 1),
     question |-> NoKey, called |-> called, failed |-> failed]

(***************************************************************************)
(* streamlit_app.py: FullRAGSystem.query                                   *)
(***************************************************************************)
\* A question is a sequence of words.  The five keywords of mock_answers
\* (lines 101-105) are words of their own: "yeyak" (reservation),
\* "chwiso" (cancellation), "jinryosigan" (consultation hours),
\* "eunggeupsil" (emergency room), "milkthistle"; "word" is any other word.
\* No keyword is made of the end of one keyword and the start of another,
\* so `key in question` is: the word key occurs in question.
MockKeys == <<"yeyak", "chwiso", "jinryosigan", "eunggeupsil", "milkthistle">>

Words == {MockKeys[i] : i \in 1..Len(MockKeys)} \cup {"word"}

Questions == StringsUpTo(Words, MaxQuestionLen)

\* the empty question and the questions of one word
ShortQuestions == {<<>>} \cup {<<w>> : w \in Words}

\* mock_answers[key]
MockAnswer(key) == "mock_answer_" \o key

\* the fixed string of line 119
NotFoundAnswer == "not_found_answer"

\* response.choices[0].message.content
ModelAnswer == "model_answer"

\* the confidences of lines 89, 117 and 120
ConfModel == Frac(9, 10)

\* a slip: a keyword hit given the confidence of a model answer
ConfKeywordHitAsModel == Frac(9, 10)

ConfKeywordHit == Frac(8, 10)
ConfKeywordMiss == Frac(3, 10)

\* key in question
Contains(key, question) == \E i \in 1..Len(question) : question[i] = key

\* a slip: the last matching key wins instead of the first
RECURSIVE LastMatchFrom(_, _)
LastMatchFrom(question, i) ==
    IF i > Len(MockKeys) THEN "None"
    ELSE LET rest == LastMatchFrom(question, i + 1)
         IN  IF rest # "None" THEN rest
             ELSE IF Contains(MockKeys[i], question) THEN MockKeys[i] ELSE "None"

\* the loop of lines 109-113 from the i-th key on: the first key of
\* mock_answers, in insertion order, that the question contains
RECURSIVE MatchFrom(_, _)
MatchFrom(question, i) ==
    IF i > Len(MockKeys) THEN "None"
    ELSE IF Contains(MockKeys[i], question) THEN MockKeys[i]
         ELSE MatchFrom(question, i + 1)

\* the except branch, lines 98-127
FullFallback(question, called) ==
    LET matched_key == MatchFrom(question, 1)
    IN  IF matched_key # "None"
        THEN Returned("FullRAGSystem", "app", question, MockAnswer(matched_key),
                      0, ConfKeywordHit, question, called, TRUE)
        ELSE Returned("FullRAGSystem", "app", question, NotFoundAnswer,
                      0, ConfKeywordMiss, question, called, TRUE)

\* what the try block meets: the API call answers ("ok"), the API call
\* raises ("api_error": network, authentication, quota), or `import openai`
\* or the client construction raises before any call ("client_error")
ApiOutcomes == {"ok", "api_error", "client_error"}

\* a slip: query without its except branch
ExceptMissing == FALSE

\* query catches every exception of its try block (line 98)
CatchesAll == TRUE

\* FullRAGSystem.query(question), lines 64-127
FullQuery(question, api) ==
    IF api = "ok"
    THEN Returned("FullRAGSystem", "app", question, ModelAnswer, 0, ConfModel,
                  question, TRUE, FALSE)
    ELSE IF CatchesAll
         THEN FullFallback(question, api = "api_error")
         ELSE Raised("FullRAGSystem", "app", question, api = "api_error", TRUE)

\* a caller asks the direct-generation system
QueryFull(c, asked) ==
    /\ result = NoResult
    /\ pc[c] = "idle"
    /\ \E question \in asked, api \in ApiOutcomes :
           result' = FullQuery(question, api)
    /\ UNCHANGED <<prepVars, orchVars>>

\* the caller takes the result (the submit handler appends it to the chat
\* history, lines 168-177)
Deliver ==
    /\ result # NoResult
    /\ result' = NoResult
    /\ UNCHANGED <<prepVars, orchVars>>

(***************************************************************************)
(* rag_system.py: HospitalRAGSystem                                        *)
(***************************************************************************)
Callers == 1..NumCallers

\* two HospitalRAGSystem objects: "direct" is constructed by its callers,
\* who share it; "cached" is the one get_rag_system constructs
Systems == {"direct", "cached"}

\* __init__, lines 24-27
Constructed == "None"

\* the object a caller can reach: the shared one, or the cached one once
\* get_rag_system has returned it
Reachable(o) == o = "direct" \/ cache = "cached"

\* the call of c ends: initialize_system returns status ("True", "False")
\* or an exception leaves it ("raised"); failed tells whether the corpus was
\* missing or empty, or the index was not built.  get_rag_system drops the
\* returned status, stores the object and releases the compute lock; an
\* exception leaves get_rag_system with nothing stored.
EndCall(c, status, failed) ==
    /\ pc' = [pc EXCEPT ![c] = "idle"]
    /\ initResult' = [initResult EXCEPT ![c] = status]
    /\ everReturned' = [everReturned EXCEPT ![target[c]] = TRUE]
    /\ lastInit' = [lastInit EXCEPT ![target[c]] = IF failed THEN "failed" ELSE "not_failed"]
    /\ IF viaCache[c]
       THEN /\ lock' = 0
            /\ cache' = IF status = "raised" THEN cache ELSE "cached"
       ELSE UNCHANGED <<cache, lock>>

\* initialize_system is entered, lines 163-165
InitializeSystem(c) ==
    /\ result = NoResult
    /\ pc[c] = "idle"
    /\ \E o \in Systems :
          /\ Reachable(o)
          /\ target' = [target EXCEPT ![c] = o]
          /\ firstWave' = [firstWave EXCEPT ![c] = ~everReturned[o]]
    /\ pc' = [pc EXCEPT ![c] = "setup_embeddings"]
    /\ viaCache' = [viaCache EXCEPT ![c] = FALSE]
    /\ initResult' = [initResult EXCEPT ![c] = "running"]
    /\ buildOk' = [buildOk EXCEPT ![c] = FALSE]
    /\ chainOk' = [chainOk EXCEPT ![c] = FALSE]
    /\ UNCHANGED <<prepVars, result, top_k, objVars, cache, lock,
                   waveBuilds, everReturned, lastInit>>

\* get_rag_system is called and misses the cache, lines 190-191
GetRagSystem(c) ==
    /\ result = NoResult
    /\ pc[c] = "idle"
    /\ cache = "empty"
    /\ pc' = [pc EXCEPT ![c] = "compute_lock"]
    /\ UNCHANGED <<prepVars, result, top_k, objVars, cache, lock, target, viaCache,
                   initResult, buildOk, chainOk, firstWave, ghostVars>>

\* the cache's compute lock is taken: the value stored meanwhile is returned,
\* or the function body runs: HospitalRAGSystem() and initialize_system(),
\* lines 193-194
ComputeCached(c) ==
    /\ pc[c] = "compute_lock"
    /\ lock = 0
    /\ IF cache = "cached"
       THEN /\ pc' = [pc EXCEPT ![c] = "idle"]
            /\ UNCHANGED <<objVars, lock, target, viaCache, initResult, buildOk,
                           chainOk, firstWave, ghostVars>>
       ELSE /\ lock' = c
            /\ embeddings' = [embeddings EXCEPT !["cached"] = Constructed]
            /\ vectorstore' = [vectorstore EXCEPT !["cached"] = Constructed]
            /\ retriever' = [retriever EXCEPT !["cached"] = Constructed]
            /\ qa_chain' = [qa_chain EXCEPT !["cached"] = Constructed]
            /\ everReturned' = [everReturned EXCEPT !["cached"] = FALSE]
            /\ waveBuilds' = [waveBuilds EXCEPT !["cached"] = 0]
            /\ lastInit' = [lastInit EXCEPT !["cached"] = "none"]
            /\ target' = [target EXCEPT ![c] = "cached"]
            /\ viaCache' = [viaCache EXCEPT ![c] = TRUE]
            /\ firstWave' = [firstWave EXCEPT ![c] = TRUE]
            /\ initResult' = [initResult EXCEPT ![c] = "running"]
            /\ buildOk' = [buildOk EXCEPT ![c] = FALSE]
            /\ chainOk' = [chainOk EXCEPT ![c] = FALSE]
                    /\ pc' = [pc EXCEPT ![c] = "setup_embeddings"]
    /\ UNCHANGED <<prepVars, result, top_k, cache>>

\* setup_embeddings, lines 29-42: the hosted provider, or on its failure the
\* local one; when the local one fails too the exception leaves
\* initialize_system
SetupEmbeddings(c) ==
    /\ pc[c] = "setup_embeddings"
    /\ \E provider \in {"OpenAIEmbeddings", "SentenceTransformer", "unavailable"} :
          IF provider = "unavailable"
          THEN /\ EndCall(c, "raised", TRUE)
               /\ UNCHANGED <<objVars>>
          ELSE /\ embeddings' = [embeddings EXCEPT ![target[c]] = provider]
               /\ pc' = [pc EXCEPT ![c] = "load_qa_data"]
               /\ UNCHANGED <<vectorstore, retriever, qa_chain, cache, lock,
                              initResult, everReturned, lastInit>>
    /\ UNCHANGED <<prepVars, result, top_k, target, viaCache, buildOk, chainOk,
                   firstWave, waveBuilds>>

\* load_qa_data and the test on its result, lines 171-175: the pickled
\* corpus, or [] when the file is missing, unreadable or holds no pair
LoadQaData(c) ==
    /\ pc[c] = "load_qa_data"
    /\ \E train_qa_pairs \in {"pairs", "empty"} :
          IF train_qa_pairs = "empty"
          THEN EndCall(c, "False", TRUE)
          ELSE /\ pc' = [pc EXCEPT ![c] = "create_documents"]
               /\ UNCHANGED <<cache, lock, initResult, everReturned, lastInit>>
    /\ UNCHANGED <<prepVars, result, top_k, objVars, target, viaCache, buildOk,
                   chainOk, firstWave, waveBuilds>>

\* create_documents, lines 55-75 and 178
CreateDocuments(c) ==
    /\ pc[c] = "create_documents"
    /\ pc' = [pc EXCEPT ![c] = "setup_vectorstore"]
    /\ UNCHANGED <<prepVars, result, top_k, objVars, cache, lock, target, viaCache,
                   initResult, buildOk, chainOk, firstWave, ghostVars>>

\* setup_vectorstore, lines 77-104: the index is built and the retriever
\* set, or an exception of the splitter or of Chroma.from_documents
\* ("store_error"), or of as_retriever ("retriever_error"), is swallowed
SetupVectorstore(c) ==
    /\ pc[c] = "setup_vectorstore"
    /\ \E outcome \in {"ok", "store_error", "retriever_error"} :
          /\ vectorstore' = IF outcome = "store_error" THEN vectorstore
                            ELSE [vectorstore EXCEPT ![target[c]] = "Chroma"]
          /\ retriever' = IF outcome = "ok"
                          THEN [retriever EXCEPT ![target[c]] = "retriever"]
                          ELSE retriever
          /\ buildOk' = [buildOk EXCEPT ![c] = (outcome = "ok")]
    /\ waveBuilds' = IF firstWave[c]
                     THEN [waveBuilds EXCEPT ![target[c]] = @ + 1]
                     ELSE waveBuilds
    /\ pc' = [pc EXCEPT ![c] = "setup_qa_chain"]
    /\ UNCHANGED <<prepVars, result, top_k, embeddings, qa_chain, cache, lock,
                   target, viaCache, initResult, chainOk, firstWave,
                   everReturned, lastInit>>

\* setup_qa_chain and the return, lines 106-126 and 184-187: the chain is set
\* when the model client is constructed and RetrievalQA accepts the retriever
\* (it rejects None); any exception is swallowed, and initialize_system
\* returns True whatever setup_vectorstore and setup_qa_chain achieved
SetupQaChain(c) ==
    /\ pc[c] = "setup_qa_chain"
    /\ \E llm \in {"ok", "error"} :
          LET set == llm = "ok" /\ retriever[target[c]] # "None"
          IN  /\ qa_chain' = IF set THEN [qa_chain EXCEPT ![target[c]] = "RetrievalQA"]
                             ELSE qa_chain
              /\ chainOk' = [chainOk EXCEPT ![c] = set]
              /\ EndCall(c, "True", ~buildOk[c])
    /\ UNCHANGED <<prepVars, result, top_k, embeddings, vectorstore, retriever,
                   target, viaCache, buildOk, firstWave, waveBuilds>>

\* the fixed strings of lines 133 and 157
NotInitializedAnswer == "not_initialized_answer"
QueryErrorAnswer == "query_error_answer"

\* result['result'] of the chain
ChainAnswer == "chain_answer"

\* a slip: the ratio without its cap
CoverageUncapped(n, k) == Frac(n, k)

\* min(1.0, len(source_docs) / top_k), line 146, for top_k # 0
Coverage(n, k) == IF n >= k THEN Frac(1, 1) ELSE Frac(n, k)

\* the except branch, lines 155-161; failed tells whether it is the chain
\* that raised
HospitalError(o, question, failed) ==
    IF CatchesAll
    THEN Returned("HospitalRAGSystem", o, question, QueryErrorAnswer, 0,
                  Frac(0, 1), question, TRUE, failed)
    ELSE Raised("HospitalRAGSystem", o, question, TRUE, failed)

\* HospitalRAGSystem.query(question), lines 128-161: chain is what the
\* retrieval chain does when called ("ok" with n source documents, or
\* "error": the retrieval or the generative call raises); the division of
\* line 146 raises ZeroDivisionError when top_k is 0
HospitalQuery(o, question, chain, n) ==
    IF qa_chain[o] = "None"
    THEN Returned("HospitalRAGSystem", o, question, NotInitializedAnswer, 0,
                  Frac(0, 1), NoKey, FALSE, FALSE)
    ELSE IF chain = "error" THEN HospitalError(o, question, TRUE)
    ELSE IF top_k = 0 THEN HospitalError(o, question, FALSE)
    ELSE Returned("HospitalRAGSystem", o, question, ChainAnswer, n,
                  Coverage(n, top_k), question, TRUE, FALSE)

\* a caller asks a HospitalRAGSystem
QueryHospital(c) ==
    /\ result = NoResult
    /\ pc[c] = "idle"
    /\ \E o \in Systems, question \in ShortQuestions, chain \in {"ok", "error"}, n \in 0..MaxDocs :
          /\ Reachable(o)
          /\ result' = HospitalQuery(o, question, chain, n)
    /\ UNCHANGED <<prepVars, orchVars>>

(***************************************************************************)
(* Specifications                                                          *)
(***************************************************************************)
PrepInit ==
    /\ phase = "raw"
    /\ text = Null
    /\ cleaned = <<>>
    /\ recleaned = <<>>
    /\ df = <<>>
    /\ qa_pairs = <<>>

OrchInit ==
    /\ embeddings = [o \in Systems |-> Constructed]
    /\ vectorstore = [o \in Systems |-> Constructed]
    /\ retriever = [o \in Systems |-> Constructed]
    /\ qa_chain = [o \in Systems |-> Constructed]
    /\ cache = "empty"
    /\ lock = 0
    /\ pc = [c \in Callers |-> "idle"]
    /\ target = [c \in Callers |-> "direct"]
    /\ viaCache = [c \in Callers |-> FALSE]
    /\ initResult = [c \in Callers |-> "none"]
    /\ buildOk = [c \in Callers |-> FALSE]
    /\ chainOk = [c \in Callers |-> FALSE]
    /\ firstWave = [c \in Callers |-> FALSE]
    /\ waveBuilds = [o \in Systems |-> 0]
    /\ everReturned = [o \in Systems |-> FALSE]
    /\ lastInit = [o \in Systems |-> "none"]

\* the state after construction
Init ==
    /\ PrepInit
    /\ result = NoResult
    /\ top_k \in 1..MaxTopK
    /\ OrchInit

\* the steps of initialize_system and get_rag_system
InitSteps(c) ==
    \/ InitializeSystem(c)
    \/ GetRagSystem(c)
    \/ ComputeCached(c)
    \/ SetupEmbeddings(c)
    \/ LoadQaData(c)
    \/ CreateDocuments(c)
    \/ SetupVectorstore(c)
    \/ SetupQaChain(c)

\* one caller at a time (the request/response use of the orchestrator):
\* initialization, re-initialization and queries
Next ==
    \/ InitSteps(1)
    \/ QueryHospital(1)
    \/ QueryFull(1, ShortQuestions)
    \/ Deliver
Spec == Init /\ [][Next]_vars

\* concurrent callers of initialize_system and get_rag_system
NextConcurrent == \E c \in Callers : InitSteps(c)
InitConcurrent ==
    /\ PrepInit
    /\ result = NoResult
    /\ top_k = MaxTopK
    /\ OrchInit
SpecConcurrent == InitConcurrent /\ [][NextConcurrent]_vars

\* the direct-generation system alone
InitFull == Init
NextFull == QueryFull(1, Questions) \/ Deliver
SpecFull == InitFull /\ [][NextFull]_vars

\* preprocess_text over every raw cell
InitClean ==
    /\ phase = "raw"
    /\ text \in Texts
    /\ cleaned = <<>>
    /\ recleaned = <<>>
    /\ df = <<>>
    /\ qa_pairs = <<>>
    /\ result = NoResult
    /\ top_k = MaxTopK
    /\ OrchInit

NextClean == Preprocess \/ PreprocessAgain
SpecClean == InitClean /\ [][NextClean]_vars

\* create_qa_pairs over every raw table
InitUnits ==
    /\ phase = "raw"
    /\ text = Null
    /\ cleaned = <<>>
    /\ recleaned = <<>>
    /\ df \in Tables
    /\ qa_pairs = <<>>
    /\ result = NoResult
    /\ top_k = MaxTopK
    /\ OrchInit

NextUnits == CreateQaPairs
SpecUnits == InitUnits /\ [][NextUnits]_vars

(***************************************************************************)
(* Corpus preparation: properties                                          *)
(***************************************************************************)
\* C8: clean (preprocess_text) is idempotent: cleaning a cleaned text gives
\* the cleaned text back, for every text.
C8_CleanIdempotent == phase = "recleaned" => recleaned = cleaned

\* the rows of df that create_qa_pairs must keep: both cells clean to
\* something
KeptRows ==
    {i \in 1..Len(df) : /\ preprocess_text(df[i].question) # <<>>
                        /\ preprocess_text(df[i].answer) # <<>>}

\* a cell that is neither null nor the empty string
RawNonEmpty(cell) == cell # Null /\ cell # <<>>

UnitsOf(i) == {j \in 1..Len(qa_pairs) : qa_pairs[j].id = i - 1}

\* C9 as stated: a row with a null or empty cell gives no unit, and a row
\* whose question and answer are both non-empty gives exactly one unit whose
\* id is the row's ordinal position.
C9_RawNonEmptyRowsKept ==
    phase = "built" =>
        \A i \in 1..Len(df) :
            IF RawNonEmpty(df[i].question) /\ RawNonEmpty(df[i].answer)
            THEN Cardinality(UnitsOf(i)) = 1
            ELSE UnitsOf(i) = {}

\* C9 as amended: a row gives exactly one unit when both its cells are
\* non-empty after cleaning and none otherwise; units keep the source order,
\* carry the cleaned cells, and have the row's ordinal position as id (ids
\* are not renumbered after drops).
C9_CleanedNonEmptyRowsKept ==
    phase = "built" =>
        /\ \A i \in 1..Len(df) :
               Cardinality(UnitsOf(i)) = IF i \in KeptRows THEN 1 ELSE 0
        /\ Len(qa_pairs) = Cardinality(KeptRows)
        /\ \A j \in 1..Len(qa_pairs) :
               /\ qa_pairs[j].id + 1 \in KeptRows
               /\ qa_pairs[j].question = preprocess_text(df[qa_pairs[j].id + 1].question)
               /\ qa_pairs[j].answer = preprocess_text(df[qa_pairs[j].id + 1].answer)
               /\ qa_pairs[j].question # <<>> /\ qa_pairs[j].answer # <<>>
        /\ \A j, k \in 1..Len(qa_pairs) : j < k => qa_pairs[j].id < qa_pairs[k].id

\* a dropped row followed by a kept one: the kept unit's id has a gap
C9_Witness ==
    /\ phase = "built"
    /\ Len(df) = 2
    /\ df[1].question = Null
    /\ Len(qa_pairs) = 1
    /\ qa_pairs[1].id = 1

(***************************************************************************)
(* Direct generation: properties                                           *)
(***************************************************************************)
\* a result of the keyword fallback for a question holding the emergency
\* room keyword
EmergencyFallback ==
    /\ result.system = "FullRAGSystem"
    /\ ~result.raised
    /\ result.failed
    /\ Contains("eunggeupsil", result.asked)

\* C7 as stated: when the generative call fails, every question that
\* contains the emergency room keyword, whatever else it contains, gets the
\* canned emergency room answer with the keyword-hit confidence.
C7_EmergencyWhateverElse ==
    EmergencyFallback =>
        /\ result.answer = MockAnswer("eunggeupsil")
        /\ result.confidence = ConfKeywordHit

\* C7 as amended: when the generative call fails, every question that
\* contains the emergency room keyword and none of the three keywords listed
\* before it in the table gets the canned emergency room answer; a question
\* that also contains an earlier keyword gets the canned answer of the
\* first such keyword; the confidence is the keyword-hit constant in both
\* cases.
C7_EmergencyUnlessEarlierKey ==
    EmergencyFallback =>
        /\ result.confidence = ConfKeywordHit
        /\ \E i \in 1..4 :
               /\ Contains(MockKeys[i], result.asked)
               /\ \A j \in 1..(i - 1) : ~Contains(MockKeys[j], result.asked)
               /\ result.answer = MockAnswer(MockKeys[i])
        /\ (\A j \in 1..3 : ~Contains(MockKeys[j], result.asked))
               => result.answer = MockAnswer("eunggeupsil")

\* the fallback answers a question that holds the emergency room keyword
\* and a keyword listed after it
C7_Witness ==
    /\ EmergencyFallback
    /\ result.asked = <<"milkthistle", "eunggeupsil">>
    /\ result.answer = MockAnswer("eunggeupsil")
    /\ result.confidence = ConfKeywordHit

\* every result the direct-generation policy can return
FullResults == {FullQuery(question, api) : question \in Questions, api \in ApiOutcomes}

\* the kind of a returned result: 3 for an answer of the model, 2 for a
\* canned answer of the keyword table, 1 for the not-found answer
Tier(r) ==
    IF ~r.failed THEN 3
    ELSE IF r.answer # NotFoundAnswer THEN 2
    ELSE 1

\* C11: in the direct-generation policy the confidence is a fixed constant
\* for each of model success, keyword-fallback hit and keyword-fallback
\* miss, and the three are strictly ordered model > hit > miss: every
\* fallback answer has a lower confidence than every model-backed answer,
\* and every miss a lower confidence than every hit.
C11_ConfidenceTiersOrdered ==
    (result.system = "FullRAGSystem" /\ ~result.raised) =>
        \A other \in FullResults :
            ~other.raised =>
                /\ Tier(other) = Tier(result) => other.confidence = result.confidence
                /\ Tier(other) < Tier(result) => Less(other.confidence, result.confidence)
                /\ Tier(other) > Tier(result) => Less(result.confidence, other.confidence)

\* the generative call failed and the keyword table answered: a confidence
\* strictly between that of a miss and that of a model answer
C11_Witness ==
    /\ result.system = "FullRAGSystem"
    /\ result.called
    /\ result.failed
    /\ result.asked = <<"chwiso", "word">>
    /\ result.answer = MockAnswer("chwiso")
    /\ Less(ConfKeywordMiss, result.confidence)
    /\ Less(result.confidence, ConfModel)

(***************************************************************************)
(* Queries and initialization: properties                                  *)
(***************************************************************************)
\* the values an answer entry takes
Answers ==
    {ModelAnswer, NotFoundAnswer, NotInitializedAnswer, QueryErrorAnswer, ChainAnswer}
        \cup {MockAnswer(MockKeys[i]) : i \in 1..Len(MockKeys)}

InRange(f) == f.den > 0 /\ 0 <= f.num /\ f.num <= f.den

\* C1: query never raises past its boundary: whatever the question and
\* whatever fails underneath, in any state of the orchestrator, both query
\* methods return a result that carries an answer and a confidence.
C1_QueryNeverRaises ==
    result # NoResult =>
        /\ ~result.raised
        /\ result.answer \in Answers
        /\ result.confidence.den > 0

\* the retrieval chain raised and query returned its error result
C1_Witness ==
    /\ result.system = "HospitalRAGSystem"
    /\ result.called
    /\ result.failed
    /\ ~result.raised
    /\ result.answer = QueryErrorAnswer

\* C2: initialization is single-flight: of the initialize_system calls that
\* begin on an object before any call on it has ended, at most one executes
\* setup_vectorstore.
C2_SingleFlight == \A o \in Systems : waveBuilds[o] <= 1

\* C3: initialize_system returns True only if the index was built and the QA
\* chain set up by that call.
C3_TrueOnlyWhenBuilt ==
    \A c \in Callers :
        initResult[c] = "True" =>
            /\ embeddings[target[c]] # "None"
            /\ buildOk[c]
            /\ chainOk[c]

\* C4: a query made while the last initialization to end on the object had
\* failed (corpus missing or empty, index not built) returns the fixed
\* not-initialized answer with confidence 0, without raising and without
\* calling the retrieval chain.
C4_FailedQueriesRefused ==
    (result.system = "HospitalRAGSystem" /\ lastInit[result.instance] = "failed") =>
        /\ ~result.raised
        /\ ~result.called
        /\ result.answer = NotInitializedAnswer
        /\ result.confidence = Frac(0, 1)

\* C5: query("") returns at once, with a confidence below the keyword-hit
\* confidence and without calling retrieval, synthesis or the network.
C5_EmptyQuestionShortCircuits ==
    (result # NoResult /\ result.asked = <<>>) =>
        /\ ~result.raised
        /\ ~result.called
        /\ Less(result.confidence, ConfKeywordHit)

\* C6: a failure of the generative call is always recovered by the keyword
\* fallback: the result is a canned keyword answer with the keyword-hit
\* confidence, or the not-found answer with the lowest confidence; never an
\* error result.
C6_SynthesisFailureFallsBack ==
    (result # NoResult /\ result.called /\ result.failed) =>
        /\ ~result.raised
        /\ \/ /\ \E i \in 1..Len(MockKeys) : result.answer = MockAnswer(MockKeys[i])
              /\ result.confidence = ConfKeywordHit
           \/ /\ result.answer = NotFoundAnswer
              /\ result.confidence = ConfKeywordMiss

\* C10: the confidence of every result query returns is within [0, 1].
C10_ConfidenceInRange ==
    (result # NoResult /\ ~result.raised) => InRange(result.confidence)

\* the chain returned more source documents than top_k and the ratio was
\* capped at 1
C10_Witness ==
    /\ result.system = "HospitalRAGSystem"
    /\ result.answer = ChainAnswer
    /\ top_k > 0
    /\ result.sources > top_k
    /\ result.confidence = Frac(1, 1)

====
